---- MODULE Spec2Model ----
(***************************************************************************)
(* Model of the discord clip scraper: the bot adapter (process_message),   *)
(* the Ingestion Batcher (MessageHandler), the Expiration Scheduler        *)
(* (RefetchHandler), the Media Processor with its Metadata Batcher         *)
(* (ThumbnailGenerator, ThumbnailUploader) and the Resource Store          *)
(* (DatastoreHandler).                                                     *)
(*                                                                         *)
(* Encodings.  Time is an integer count of 60 s units.  Python None is the *)
(* integer NoneVal and a non-numeric (string) timestamp is the integer     *)
(* StrVal, both negative, so that a timestamp or a duration is numeric     *)
(* exactly when it is >= 0.  An md5 digest is modelled by the tuple of the *)
(* digested components (distinct inputs give distinct digests).            *)
(***************************************************************************)
EXTENDS Integers, Sequences, FiniteSets, TLC

\* ---------------------------------------------------------------- bounds
NMsgs == 2            \* platform messages that can be observed
NSchedDocs == 3       \* records an earlier run left for the scheduler to seed from
MaxShaped == 2        \* observations made when the id computation is examined
MaxLive == 3          \* live/history observations fed to the Ingestion Batcher
MaxRefetchLive == 1   \* live observations made while the scheduler runs
MaxMedia == 2         \* live/history observations fed to the Media Processor
UrlTTL == 8           \* lifetime the platform gives a signed URL
Horizon == 7          \* clock units the scheduler model runs past StartTime
ShortHorizon == 2     \* clock units the batcher models run past StartTime
NMetaIds == 3         \* resource ids whose durations reach the Metadata Batcher alone
MaxPerId == 1         \* durations submitted for one id to the Metadata Batcher alone
MetaHorizon == 3      \* clock units the Metadata Batcher model runs past StartTime
MaxCalls == 2         \* direct calls of the batched writes of the store
MaxBatch == 2         \* items in one batch given to such a call
MaxFaults == 1        \* failures of external collaborators in one run
batch_size == 2       \* MessageHandler(batch_size=30), scaled down
flush_interval == 2   \* MessageHandler(flush_interval=60), scaled down
MetaBatchSize == 3    \* len(new_metadata) >= 50, scaled down
max_concurrent_tasks == 1  \* thumb_queue_handler(max_concurrent_tasks=4), scaled down
overlap_tasks == 2    \* the same parameter where tasks are to run side by side

\* ------------------------------------------------------ program constants
MetaFlushAge == 1     \* 60 s since last_modification, in clock units
QuietWindow == 5      \* 5 * 60 s without input before the heap is scanned
check_interval == 1   \* RefetchHandler(check_interval=60), in clock units

NoneVal == 0 - 1      \* Python None
StrVal == 0 - 2       \* a str where a number is expected
StartTime == QuietWindow + 1   \* time.time() at start is far beyond 5*60
EndTime == StartTime + Horizon

PMsgs == 1 .. NMsgs
IsNumeric(x) == x >= 0             \* isinstance(x, (int, float))
Truthy(x) == x > 0                 \* truth value of a number or None

\* ------------------------------------------------------------- sequences
RECURSIVE SeqToSet(_)
SeqToSet(s) == IF s = <<>> THEN {} ELSE {Head(s)} \cup SeqToSet(Tail(s))

RECURSIVE Flatten(_)
Flatten(ss) == IF ss = <<>> THEN <<>> ELSE Head(ss) \o Flatten(Tail(ss))

\* ---------------------------------------------------- attachment URLs
\* A URL is its path and its query string, a sequence of <<key, value>>;
\* the value of "ex" is a sequence of hexadecimal digits (16 = not a digit).
RECURSIVE ToHex(_)
ToHex(n) == IF n < 16 THEN <<n>> ELSE Append(ToHex(n \div 16), n % 16)

RECURSIVE FromHex(_)
FromHex(ds) ==
    IF ds = <<>> THEN 0
    ELSE 16 * FromHex(SubSeq(ds, 1, Len(ds) - 1)) + ds[Len(ds)]

ValidHex(ds) == ds # <<>> /\ \A i \in 1 .. Len(ds) : ds[i] \in 0 .. 15

SignedURL(m, t) ==
    [path |-> m, query |-> << <<"ex", ToHex(t + UrlTTL)>>, <<"is", ToHex(t)>> >>]
PlainURL(m) == [path |-> m, query |-> <<>>]

\* "?ex=" occurs in the URL text exactly when ex is the first parameter;
\* URL[:URL.rfind("?ex=")] then keeps the path alone
trim_attachment_url_none(URL) == URL

trim_attachment_url(URL) ==
    IF URL.query # <<>> /\ URL.query[1][1] = "ex"
    THEN [path |-> URL.path, query |-> <<>>]
    ELSE URL

generate_message_id(author_id, created_at, attachment) ==
    <<author_id, created_at, attachment>>

RECURSIVE FirstEx(_)
FirstEx(q) ==
    IF q = <<>> THEN NoneVal
    ELSE IF Head(q)[1] = "ex"
         THEN (IF ValidHex(Head(q)[2]) THEN FromHex(Head(q)[2]) ELSE NoneVal)
         ELSE FirstEx(Tail(q))

get_expiration_timestamp(url) == FirstEx(url.query)

\* ------------------------------------------------- the chat platform
\* Platform message m has one .mp4 attachment, a fixed author and instant.
AuthorId(m) == m
AuthorName(m) == IF m = 1 THEN "alice" ELSE "bob"
AvatarUrl(m) == IF m = 1 THEN "avatar" ELSE "None"
CreatedAt(m) == m
ChannelOf(m) == 1

MessageUuid(m, url) ==
    generate_message_id(AuthorId(m), CreatedAt(m), trim_attachment_url(url))

build_message_data(m, message_id, url) ==
    [Id |-> message_id,
     Discord_id |-> m,
     Poster |-> AuthorName(m),
     Attachment_URL |-> url,
     Expire_Timestamp |-> get_expiration_timestamp(url),
     channelId |-> ChannelOf(m)]

Uuid(m) == MessageUuid(m, PlainURL(m))

UserData(m) == [Name |-> AuthorName(m), Url |-> AvatarUrl(m)]
Descriptor(m, url) == [Id |-> MessageUuid(m, url), Attachment_URL |-> url]


\* ============================================================== state
VARIABLES
    now,                \* time.time(), in clock units
    faults,             \* failures of external collaborators so far
    fetch_history,      \* Overlord(fetch_history=...)
    running,            \* Overlord.running
    live_count,         \* process_message calls made for live/history events
    message_queue,      \* Queue of <<message_data, user_data>>
    thumbnail_queue,    \* Queue of attachment descriptors
    refetch_queue,      \* Queue of <<expire, Id, Discord_id, channelId>>
    store_msgs,         \* Firestore collection "messages": Id -> document
    store_users,        \* Firestore collection "userdata": name -> document
    pending_messages,   \* MessageHandler.pending_messages
    pending_users,      \* MessageHandler.pending_users
    last_flush_time,    \* MessageHandler.last_flush_time
    flushes,            \* history: the <<messages, users>> of every upload() call
    refetch_heap,       \* RefetchHandler.refetch_heap, in pop order
    last_message_time,  \* local of RefetchHandler.start
    rh_pc,              \* RefetchHandler.start: "init" before seeding, then "loop"
    rh_wake,            \* instant at which time.sleep(check_interval) returns
    dispatched,         \* history: entries handed to run_coroutine_threadsafe
    inflight,           \* refetch_message coroutines scheduled on the bot loop
    uploaded_uuids,     \* ThumbnailGenerator.uploaded_uuids
    video_lengths,      \* ThumbnailGenerator.video_lengths
    metadata_queue,     \* ThumbnailGenerator.metadata_queue
    tasks,              \* every task created by add_tasks_from_queue
    pending_tasks,      \* local of thumb_queue_handler (task indexes)
    tq_pc,              \* thumb_queue_handler: "sleep", "wait" or "stopped"
    sem_value,          \* asyncio.Semaphore._value
    stats,              \* local of thumb_queue_handler
    temp_files,         \* temp folder: Id -> "partial" | "complete"
    thumb_files,        \* output folder: Ids that have a {Id}.png
    last_uploaded_files,\* ThumbnailUploader.last_uploaded_files
    bucket,             \* object store: Id -> number of uploads of {Id}.png made
    changes_made,       \* local of batch_save_metadata
    last_modification,  \* local of batch_save_metadata
    new_metadata,       \* local of batch_save_metadata
    runtime_batches,    \* history: every batch given to push_batch_runtimes
    md_submitted,       \* history: Id -> the Lengths put on metadata_queue, in order
    vl_startup,         \* history: video_lengths as loaded by __init__
    put_after_full,     \* history: per descriptor put on thumbnail_queue, whether
                        \* its resource had already been fully processed in this run
    batch_first,        \* history: instant at which the oldest entry of new_metadata
                        \* was accepted (NoneVal while new_metadata is empty)
    mh_thread,          \* run_message_handler_loop: "live" or "exited"
    rh_thread,          \* run_refetch_handler_loop: "live" or "exited"
    ready,              \* event loop of the thumbnail thread: its queue of handles
    wait_fs,            \* the tasks the handler's asyncio.wait was called with
    counted,            \* history: the tasks given to update_stats, in order
    poll_parity         \* history: idle turns of the two worker loops, modulo 2

ovVars == <<fetch_history, running, mh_thread, rh_thread, ready, wait_fs, counted,
           poll_parity>>
botVars == <<live_count, message_queue, thumbnail_queue, put_after_full>>
storeVars == <<store_msgs, store_users>>
mhVars == <<pending_messages, pending_users, last_flush_time, flushes>>
rhVars == <<refetch_queue, refetch_heap, last_message_time, rh_pc, rh_wake,
           dispatched, inflight>>
tgVars == <<uploaded_uuids, video_lengths, metadata_queue, tasks, pending_tasks,
            tq_pc, sem_value, stats, temp_files, thumb_files,
            last_uploaded_files, bucket>>
mbVars == <<changes_made, last_modification, new_metadata, runtime_batches>>
histVars == <<md_submitted, vl_startup, batch_first>>
vars == <<now, faults, ovVars, botVars, storeVars, mhVars, rhVars, tgVars, mbVars,
          histVars>>

EmptyFn == [x \in {} |-> x]

\* a bag as a function from its elements to their counts
BagAdd(B, x) == IF x \in DOMAIN B THEN [B EXCEPT ![x] = @ + 1] ELSE (x :> 1) @@ B

\* an outcome ok = FALSE is a failure of an external collaborator
Cost(ok) == IF ok THEN 0 ELSE 1
Outcomes == IF faults < MaxFaults THEN BOOLEAN ELSE {TRUE}

\* ==================================================== Resource Store
\* A document is the message dictionary plus the Runtime field
\* (NoneVal when the document has no such field).
Doc(message, runtime) ==
    [Id |-> message.Id, Discord_id |-> message.Discord_id,
     Poster |-> message.Poster, Attachment_URL |-> message.Attachment_URL,
     Expire_Timestamp |-> message.Expire_Timestamp,
     channelId |-> message.channelId, Runtime |-> runtime]

\* batch.set(doc_ref, message) replaces the whole document
SetDoc(store, message) == (message.Id :> Doc(message, NoneVal)) @@ store

\* push_batch_msgs, lines 107-110: a message without Id is skipped
HasId_any(message) == TRUE

HasId(message) == message.Id # <<>>

RECURSIVE SetAll(_, _)
SetAll(store, messages) ==
    IF messages = <<>> THEN store
    ELSE SetAll(IF HasId(Head(messages))
                THEN SetDoc(store, Head(messages)) ELSE store,
                Tail(messages))

push_batch_msgs(store, messages, commit_ok) ==
    IF messages = <<>> \/ ~commit_ok THEN store ELSE SetAll(store, messages)

push_batch_user_data(store, userdata, commit_ok) ==
    IF DOMAIN userdata = {} \/ ~commit_ok THEN store
    ELSE [n \in DOMAIN store \cup {u \in DOMAIN userdata :
                                      u # "" /\ userdata[u].Name # ""} |->
            IF n \in DOMAIN userdata /\ n # "" /\ userdata[n].Name # ""
            THEN userdata[n] ELSE store[n]]

get_all_runtimes(store) ==
    [id \in {i \in DOMAIN store : store[i].Runtime # NoneVal} |-> store[id].Runtime]

\* batch.update(doc_ref, {"Runtime": v}) for the entries that pass the checks
RECURSIVE UpdateAll(_, _)
UpdateAll(store, runtimes) ==
    IF runtimes = <<>> THEN store
    ELSE LET r == Head(runtimes)
             ok == r.Id # <<>> /\ r.Length # NoneVal /\ r.Id \in DOMAIN store
         IN UpdateAll(IF ok THEN [store EXCEPT ![r.Id].Runtime = r.Length] ELSE store,
                      Tail(runtimes))

push_batch_runtimes(store, runtimes, commit_ok) ==
    IF runtimes = <<>> \/ ~commit_ok THEN store ELSE UpdateAll(store, runtimes)

\* ================================================= bot adapter
\* process_message for platform message m whose attachment URL is url
FullyProcessed(id) ==
    /\ id \in DOMAIN video_lengths /\ id \notin DOMAIN vl_startup
    /\ id \in last_uploaded_files /\ id \notin uploaded_uuids

\* lines 63-87 of process_message, given the dictionaries it builds
ProcessMessageFrom(m, url, message_data, user_data) ==
    /\ thumbnail_queue' = Append(thumbnail_queue, Descriptor(m, url))
    /\ put_after_full' = Append(put_after_full, FullyProcessed(MessageUuid(m, url)))
    /\ message_queue' = Append(message_queue, <<message_data, user_data>>)

ProcessMessageEffect(m, url) ==
    ProcessMessageFrom(m, url, build_message_data(m, MessageUuid(m, url), url),
                       UserData(m))

\* the platform signs every attachment URL it hands out now
LiveURLs(m) == {SignedURL(m, now)}

\* on_message / fetch_channel_history -> process_message
OnMessage(limit) ==
    /\ live_count < limit
    /\ \E m \in PMsgs : \E url \in LiveURLs(m) : ProcessMessageEffect(m, url)
    /\ live_count' = live_count + 1
    /\ UNCHANGED <<now, faults, ovVars, storeVars, mhVars, rhVars, tgVars, mbVars, histVars>>

\* on_message -> process_message for an event whose author has an empty name
OnNamelessMessage(limit) ==
    /\ live_count < limit
    /\ \E m \in PMsgs : \E url \in LiveURLs(m) :
          ProcessMessageFrom(m, url,
              [build_message_data(m, MessageUuid(m, url), url) EXCEPT !.Poster = ""],
              [UserData(m) EXCEPT !.Name = ""])
    /\ live_count' = live_count + 1
    /\ UNCHANGED <<now, faults, ovVars, storeVars, mhVars, rhVars, tgVars, mbVars, histVars>>

\* on_message -> process_message for an event whose author has changed the
\* avatar since earlier events: lines 72-75 read the avatar at observation time
OnMessageNewAvatar(limit) ==
    /\ live_count < limit
    /\ \E m \in PMsgs : \E url \in LiveURLs(m) :
          ProcessMessageFrom(m, url,
              build_message_data(m, MessageUuid(m, url), url),
              [UserData(m) EXCEPT !.Url = "avatar2"])
    /\ live_count' = live_count + 1
    /\ UNCHANGED <<now, faults, ovVars, storeVars, mhVars, rhVars, tgVars, mbVars, histVars>>

\* ================================================= Ingestion Batcher
\* lines 28-30: the poster is buffered when it has a name not yet buffered
BuffersPoster_any(author, users) == author.Name \notin DOMAIN users

BuffersPoster(author, users) == author.Name # "" /\ author.Name \notin DOMAIN users

ShouldFlush_timed(n, elapsed) == elapsed >= flush_interval

ShouldFlush_sized(n, elapsed) == n >= batch_size

ShouldFlush_strict(n, elapsed) == n > batch_size \/ elapsed >= flush_interval

ShouldFlush(n, elapsed) == n >= batch_size \/ elapsed >= flush_interval

\* line 42: pending_messages after upload() returned
ClearPending_keep(pm, ok) == IF ok THEN <<>> ELSE pm

ClearPending(pm, ok) == <<>>

\* one iteration of the while loop of start_live_message_handling
MHIteration ==
    LET got == message_queue # <<>>
        author == Head(message_queue)[2]
        pm == IF got THEN Append(pending_messages, Head(message_queue)[1])
              ELSE pending_messages
        pu == IF got /\ BuffersPoster(author, pending_users)
              THEN (author.Name :> author) @@ pending_users
              ELSE pending_users
    IN /\ message_queue' = IF got THEN Tail(message_queue) ELSE message_queue
       /\ IF ShouldFlush(Len(pm), now - last_flush_time) /\ pm # <<>>
          THEN \E ok_msgs, ok_users \in Outcomes :
                 /\ faults + Cost(ok_msgs) + Cost(ok_users) <= MaxFaults
                 /\ faults' = faults + Cost(ok_msgs) + Cost(ok_users)
                 /\ store_msgs' = push_batch_msgs(store_msgs, pm, ok_msgs)
                 /\ store_users' = push_batch_user_data(store_users, pu, ok_users)
                 /\ flushes' = Append(flushes, <<pm, pu>>)
                 /\ pending_messages' = ClearPending(pm, ok_msgs)
                 /\ pending_users' = pu
                 /\ last_flush_time' = now
          ELSE /\ pending_messages' = pm
               /\ pending_users' = pu
               /\ UNCHANGED <<faults, storeVars, flushes, last_flush_time>>
       /\ UNCHANGED <<now, ovVars, live_count, thumbnail_queue, put_after_full,
                      rhVars, tgVars, mbVars, histVars>>

\* ================================================= Overlord
\* cleanup(): the flag is cleared and run() returns, which ends the process and
\* its daemon threads; no loop of a component reads the flag while it runs
Cleanup ==
    /\ running
    /\ running' = FALSE
    /\ UNCHANGED <<now, faults, poll_parity, fetch_history, mh_thread, rh_thread, ready,
                   wait_fs, counted, botVars, storeVars, mhVars, rhVars, tgVars, mbVars,
                   histVars>>

\* ================================================= clock
TickTo(limit) ==
    /\ now < limit
    /\ now' = now + 1
    /\ UNCHANGED <<faults, ovVars, botVars, storeVars, mhVars, rhVars, tgVars, mbVars,
                   histVars>>


\* ================================================= Expiration Scheduler
\* an arbitrary but fixed enumeration of a finite set
RECURSIVE SetToSeq(_)
SetToSeq(S) ==
    IF S = {} THEN <<>> ELSE LET x == CHOOSE y \in S : TRUE
                             IN <<x>> \o SetToSeq(S \ {x})

TruthyField_always(x) == TRUE

TruthyField(x) == x > 0 \/ x = StrVal      \* a non-empty str is truthy

SeedEntries(store) ==
    {<<store[i].Expire_Timestamp, store[i].Id, store[i].Discord_id, store[i].channelId>> :
        i \in {j \in DOMAIN store : /\ TruthyField(store[j].Expire_Timestamp)
                                    /\ TruthyField(store[j].Discord_id)
                                    /\ TruthyField(store[j].channelId)}}

\* populate_refetch_queue_from_datastore; get_all_messages returns [] on error
populate_refetch_queue_from_datastore(read_ok) ==
    IF read_ok THEN SetToSeq(SeedEntries(store_msgs)) ELSE <<>>

\* start(), up to the first iteration of its loop
RHStart ==
    /\ rh_pc = "init"
    /\ rh_pc' = "loop"
    /\ IF fetch_history
       THEN UNCHANGED <<refetch_queue, faults>>
       ELSE \E read_ok \in Outcomes :
              /\ refetch_queue' =
                    refetch_queue \o populate_refetch_queue_from_datastore(read_ok)
              /\ faults' = faults + Cost(read_ok)
    /\ last_message_time' = 0
    /\ rh_wake' = now
    /\ UNCHANGED <<now, ovVars, botVars, storeVars, mhVars, refetch_heap,
                   dispatched, inflight, tgVars, mbVars, histVars>>

\* the inner while loop of start(): queue entries with a numeric expiry go to the heap
AcceptEntry_any(e) == TRUE

AcceptEntry(e) == IsNumeric(e[1])

DrainToHeap(heap, queue) == heap \cup {e \in SeqToSet(queue) : AcceptEntry(e)}

\* the orders in which heappop can return the due entries
IsDue_strict(e, T) == e[1] < T

IsDue(e, T) == e[1] <= T

HeapMins(heap) == {e \in heap : \A f \in heap : e[1] <= f[1]}

RECURSIVE PopOrders(_, _)
PopOrders(heap, T) ==
    IF heap = {} \/ \A e \in HeapMins(heap) : ~IsDue(e, T) THEN {<<>>}
    ELSE UNION {{<<e>> \o rest : rest \in PopOrders(heap \ {e}, T)} :
                 e \in {f \in HeapMins(heap) : IsDue(f, T)}}

\* the heap once process_expired_messages has popped the due entries, some of
\* whose dispatch raised
HeapAfter_retry(heap, popped, raised) == heap \ (SeqToSet(popped) \ raised)

HeapAfter(heap, popped, raised) == heap \ SeqToSet(popped)

QuietElapsed_never(last, t) == FALSE

QuietElapsed_always(last, t) == TRUE

QuietElapsed(last, t) == last + QuietWindow < t

\* one iteration of the outer while loop of start(), with process_expired_messages
RHCycle ==
    /\ rh_pc = "loop"
    /\ now >= rh_wake
    /\ LET heap1 == DrainToHeap(refetch_heap, refetch_queue)
           last1 == IF refetch_queue # <<>> THEN now ELSE last_message_time
       IN /\ refetch_queue' = <<>>
          /\ last_message_time' = last1
          /\ IF QuietElapsed(last1, now)
             THEN \E popped \in PopOrders(heap1, now) :
                  \E raised \in SUBSET SeqToSet(popped) :
                    /\ faults + Cardinality(raised) <= MaxFaults
                    /\ faults' = faults + Cardinality(raised)
                    /\ refetch_heap' = HeapAfter(heap1, popped, raised)
                    /\ dispatched' = dispatched \o popped
                    /\ inflight' = inflight \cup
                          {<<e[3], e[4]>> : e \in SeqToSet(popped) \ raised}
             ELSE /\ refetch_heap' = heap1
                  /\ UNCHANGED <<dispatched, inflight, faults>>
    /\ rh_wake' = now + check_interval
    /\ UNCHANGED <<now, ovVars, botVars, storeVars, mhVars, rh_pc, tgVars, mbVars, histVars>>

\* refetch_message(discord_id, channel_id) running on the bot loop
RefetchMessage ==
    \E r \in inflight :
      /\ inflight' = inflight \ {r}
      /\ \/ \* channel not found, or fetch_message raised
            /\ faults < MaxFaults
            /\ faults' = faults + 1
            /\ UNCHANGED botVars
         \/ \* the message was fetched and goes through process_message
            /\ \E url \in LiveURLs(r[1]) : ProcessMessageEffect(r[1], url)
            /\ UNCHANGED <<live_count, faults>>
      /\ UNCHANGED <<now, ovVars, storeVars, mhVars, refetch_queue, refetch_heap,
                     last_message_time, rh_pc, rh_wake, dispatched, tgVars, mbVars, histVars>>


\* ================================================= Media Processor
Lengths == {0, 10, 12}          \* durations ffprobe can report for a file

NewTask(video) ==
    [video |-> video, pc |-> "created", status |-> "none",
     metadata_exists |-> FALSE, thumbnail_exists |-> FALSE,
     downloaded |-> FALSE, probed |-> FALSE, extracted |-> FALSE, uploaded |-> FALSE,
     dl |-> "none", probe_result |-> NoneVal, made |-> FALSE]

InBody(t) == t.pc \in {"download", "writing", "probe", "thumb"}

\* asyncio.Semaphore: acquire succeeds without waiting while _value > 0
CanAcquire_unbounded(v) == TRUE

CanAcquire(v) == v > 0

\* process_video, lines 203-205
SkipCondition_never(metadata_exists, thumbnail_exists) == FALSE

SkipCondition(metadata_exists, thumbnail_exists) ==
    metadata_exists /\ thumbnail_exists

\* the return of process_video and the exit of "async with semaphore"
Return(t, status) == [t EXCEPT !.pc = "done", !.status = status]

\* ThumbnailUploader.upload_thumbnail through ThumbnailGenerator.upload_thumbnail:
\* the values of <<last_uploaded_files, bucket, uploaded-now, faults>> it can leave
UploadOutcomes_mark(id, files, f) ==
    IF id \in last_uploaded_files \/ id \notin files
    THEN {<<last_uploaded_files, bucket, FALSE, f>>}
    ELSE {<<last_uploaded_files \cup {id}, BagAdd(bucket, id), TRUE, f>>}
         \cup (IF f < MaxFaults
               THEN {<<last_uploaded_files \cup {id}, bucket, FALSE, f + 1>>} ELSE {})

UploadOutcomes(id, files, f) ==
    IF id \in last_uploaded_files
    THEN {<<last_uploaded_files, bucket, FALSE, f>>}
    ELSE IF id \notin files                  \* no such file: upload_to_bucket raises
    THEN {<<last_uploaded_files, bucket, FALSE, f>>}
    ELSE {<<last_uploaded_files \cup {id}, BagAdd(bucket, id), TRUE, f>>}
         \cup (IF f < MaxFaults              \* the object store fails
               THEN {<<last_uploaded_files, bucket, FALSE, f + 1>>} ELSE {})

\* lines 224-231 of process_video for task i: remove the temp file, upload, return
Finish(i, t, files, f) ==
    LET id == t.video.Id
    IN /\ temp_files' = [x \in DOMAIN temp_files \ {id} |-> temp_files[x]]
       /\ thumb_files' = files
       /\ \E o \in UploadOutcomes(id, files, f) :
            /\ last_uploaded_files' = o[1]
            /\ bucket' = o[2]
            /\ faults' = o[4]
            /\ tasks' = [tasks EXCEPT ![i] =
                            Return([t EXCEPT !.uploaded = o[3]], "generated")]
       /\ sem_value' = sem_value + 1

\* where process_video suspends next once the download step is over
AfterDownload(t) ==
    [t EXCEPT !.pc = IF ~t.metadata_exists THEN "probe" ELSE "thumb"]

\* process_with_semaphore acquires a permit and process_video runs to its first await
TaskStart(i) ==
    /\ tasks[i].pc = "created"
    /\ \A j \in 1 .. i - 1 : tasks[j].pc # "created"       \* waiters are served FIFO
    /\ CanAcquire(sem_value)
    /\ LET id == tasks[i].video.Id
           t == [tasks[i] EXCEPT !.metadata_exists = id \in DOMAIN video_lengths,
                                 !.thumbnail_exists = id \in uploaded_uuids]
       IN IF SkipCondition(t.metadata_exists, t.thumbnail_exists)
          THEN /\ tasks' = [tasks EXCEPT ![i] = Return(t, "skipped")]
               /\ sem_value' = sem_value
          ELSE /\ sem_value' = sem_value - 1
               /\ tasks' = [tasks EXCEPT ![i] =
                     IF id \notin DOMAIN temp_files
                     THEN [t EXCEPT !.pc = "download", !.downloaded = TRUE]
                     ELSE AfterDownload(t)]
    /\ UNCHANGED <<now, faults, ovVars, botVars, storeVars, mhVars, rhVars, mbVars, histVars,
                   uploaded_uuids, video_lengths, metadata_queue, pending_tasks, tq_pc,
                   stats, temp_files, thumb_files, last_uploaded_files, bucket>>

\* download_video: the response arrives
DownloadResponse(i) ==
    /\ tasks[i].pc = "download"
    /\ LET id == tasks[i].video.Id
       IN \/ \* status 200: open(filename, "wb")
             /\ temp_files' = (id :> "partial") @@ temp_files
             /\ tasks' = [tasks EXCEPT ![i].pc = "writing"]
             /\ sem_value' = sem_value
          \/ \* any other status: download_video returns without a file
             /\ faults < MaxFaults
             /\ tasks' = [tasks EXCEPT ![i] =
                             AfterDownload([tasks[i] EXCEPT !.dl = "status"])]
             /\ UNCHANGED <<temp_files, sem_value>>
          \/ \* session.get raised
             /\ faults < MaxFaults
             /\ tasks' = [tasks EXCEPT ![i] =
                             Return([tasks[i] EXCEPT !.dl = "raised"], "error")]
             /\ sem_value' = sem_value + 1
             /\ UNCHANGED temp_files
    /\ faults' = IF tasks'[i].pc = "writing" THEN faults ELSE faults + 1
    /\ UNCHANGED <<now, ovVars, botVars, storeVars, mhVars, rhVars, mbVars, histVars,
                   uploaded_uuids, video_lengths, metadata_queue, pending_tasks, tq_pc,
                   stats, thumb_files, last_uploaded_files, bucket>>

\* download_video: the chunk loop ends
DownloadBody(i) ==
    /\ tasks[i].pc = "writing"
    /\ LET id == tasks[i].video.Id
       IN \/ \* the last chunk was written
             /\ temp_files' = [x \in DOMAIN temp_files |->
                                 IF x = id THEN "complete" ELSE temp_files[x]]
             /\ tasks' = [tasks EXCEPT ![i] =
                             AfterDownload([tasks[i] EXCEPT !.dl = "ok"])]
             /\ sem_value' = sem_value
             /\ faults' = faults
          \/ \* response.content.read raised
             /\ faults < MaxFaults
             /\ faults' = faults + 1
             /\ tasks' = [tasks EXCEPT ![i] =
                             Return([tasks[i] EXCEPT !.dl = "raised"], "error")]
             /\ sem_value' = sem_value + 1
             /\ UNCHANGED temp_files
    /\ UNCHANGED <<now, ovVars, botVars, storeVars, mhVars, rhVars, mbVars, histVars,
                   uploaded_uuids, video_lengths, metadata_queue, pending_tasks, tq_pc,
                   stats, thumb_files, last_uploaded_files, bucket>>

\* get_video_length: None without a readable duration, else the float
ProbeResults(id) ==
    IF id \notin DOMAIN temp_files THEN {NoneVal}           \* no such file
    ELSE Lengths \cup (IF faults < MaxFaults THEN {NoneVal} ELSE {})

ProbeCost(id, video_length) ==
    IF id \in DOMAIN temp_files /\ video_length = NoneVal THEN 1 ELSE 0

\* process_metadata, line 174: the duration is queued when the probe gave one
Enqueues_always(video_length) == TRUE

Enqueues(video_length) == video_length # NoneVal

Submitted(id) == IF id \in DOMAIN md_submitted THEN md_submitted[id] ELSE <<>>

\* process_metadata returns; process_video continues to its next await or its end
ProbeDone(i) ==
    /\ tasks[i].pc = "probe"
    /\ LET id == tasks[i].video.Id
       IN \E video_length \in ProbeResults(id) :
          LET t == [tasks[i] EXCEPT !.probed = TRUE, !.probe_result = video_length]
          IN
            /\ IF Enqueues(video_length)
               THEN /\ metadata_queue' =
                         Append(metadata_queue, [Id |-> id, Length |-> video_length])
                    /\ md_submitted' =
                         (id :> Append(Submitted(id), video_length)) @@ md_submitted
               ELSE UNCHANGED <<metadata_queue, md_submitted>>
            /\ IF ~t.thumbnail_exists
               THEN /\ tasks' = [tasks EXCEPT ![i] = [t EXCEPT !.pc = "thumb"]]
                    /\ faults' = faults + ProbeCost(id, video_length)
                    /\ UNCHANGED <<temp_files, thumb_files, last_uploaded_files, bucket,
                                   sem_value>>
               ELSE Finish(i, t, thumb_files, faults + ProbeCost(id, video_length))
    /\ UNCHANGED <<now, ovVars, botVars, storeVars, mhVars, rhVars, mbVars, vl_startup,
                   batch_first, uploaded_uuids, video_lengths, pending_tasks, tq_pc, stats>>

\* generate_thumbnail returns; process_video runs to its end
ThumbDone(i) ==
    /\ tasks[i].pc = "thumb"
    /\ LET id == tasks[i].video.Id
       IN \E made \in (IF id \in DOMAIN temp_files THEN Outcomes ELSE {FALSE}) :
            Finish(i, [tasks[i] EXCEPT !.extracted = TRUE, !.made = made],
                   IF made THEN thumb_files \cup {id} ELSE thumb_files,
                   IF id \in DOMAIN temp_files THEN faults + Cost(made) ELSE faults)
    /\ UNCHANGED <<now, ovVars, botVars, storeVars, mhVars, rhVars, mbVars, histVars,
                   uploaded_uuids, video_lengths, metadata_queue, pending_tasks, tq_pc,
                   stats>>

TaskStep ==
    \E i \in 1 .. Len(tasks) :
        \/ TaskStart(i)
        \/ DownloadResponse(i)
        \/ DownloadBody(i)
        \/ ProbeDone(i)
        \/ ThumbDone(i)

\* update_stats over the set returned by asyncio.wait
CountStatus(done, status) == Cardinality({i \in done : tasks[i].status = status})

\* one iteration of the loop of thumb_queue_handler: the sleep or the wait returns,
\* completed tasks are counted, add_tasks_from_queue drains the queue
TQIteration ==
    LET done == {i \in pending_tasks : tasks[i].pc = "done"}
        n == Len(tasks)
        k == Len(thumbnail_queue)
        pending1 == (pending_tasks \ done) \cup (n + 1 .. n + k)
    IN /\ tq_pc = "sleep" \/ (tq_pc = "wait" /\ done # {})
       /\ stats' = [generated |-> stats.generated + CountStatus(done, "generated"),
                    skipped |-> stats.skipped + CountStatus(done, "skipped"),
                    errors |-> stats.errors + CountStatus(done, "error")]
       /\ tasks' = tasks \o [j \in 1 .. k |-> NewTask(thumbnail_queue[j])]
       /\ thumbnail_queue' = <<>>
       /\ pending_tasks' = pending1
       /\ tq_pc' = IF pending1 # {} THEN "wait" ELSE "sleep"
       /\ UNCHANGED <<now, faults, ovVars, live_count, message_queue, put_after_full,
                      storeVars, mhVars, rhVars, mbVars, histVars,
                      uploaded_uuids, video_lengths, metadata_queue, sem_value,
                      temp_files, thumb_files, last_uploaded_files, bucket>>

\* the loop of thumb_queue_handler ends (its body raised, or the coroutine was
\* cancelled): the finally block cancels metadata_task and awaits it. The
\* CancelledError is raised inside batch_save_metadata at its await; it is not
\* an Exception, so the except clause there does not catch it and the coroutine
\* ends where it stands, its locals new_metadata and changes_made discarded.
TQTerminate ==
    /\ tq_pc # "stopped"
    /\ tq_pc' = "stopped"
    /\ UNCHANGED <<now, faults, ovVars, botVars, storeVars, mhVars, rhVars, mbVars,
                   histVars, uploaded_uuids, video_lengths, metadata_queue, tasks,
                   pending_tasks, sem_value, stats, temp_files, thumb_files,
                   last_uploaded_files, bucket>>

\* ================================================= Metadata Batcher
\* the inner while loop of batch_save_metadata over the queued entries:
\* <<video_lengths, new_metadata, changes_made, last_modification>> afterwards
AcceptsEntry_refresh(vl, entry) == TRUE

AcceptsEntry_overwrite(vl, entry) ==
    entry.Id \notin DOMAIN vl \/ vl[entry.Id] # entry.Length

AcceptsEntry(vl, entry) == entry.Id \notin DOMAIN vl

ValidEntry(entry) == entry.Id # <<>> /\ Truthy(entry.Length)

RECURSIVE DrainMetadata(_, _)
DrainMetadata(acc, queue) ==
    IF queue = <<>> THEN acc
    ELSE LET entry == Head(queue)
         IN DrainMetadata(
              IF ValidEntry(entry) /\ AcceptsEntry(acc[1], entry)
              THEN << (entry.Id :> entry.Length) @@ acc[1],
                      Append(acc[2], entry), TRUE, now >>
              ELSE acc,
              Tail(queue))

MetaShouldFlush_sized(changes, n, age) == changes /\ n >= MetaBatchSize

MetaShouldFlush(changes, n, age) ==
    changes /\ (n >= MetaBatchSize \/ age >= MetaFlushAge)

\* one iteration of the while loop of batch_save_metadata
BatchSaveMetadata ==
    LET acc == DrainMetadata(<<video_lengths, new_metadata, changes_made,
                               last_modification>>, metadata_queue)
    IN /\ metadata_queue' = <<>>
       /\ video_lengths' = acc[1]
       /\ last_modification' = acc[4]
       /\ IF MetaShouldFlush(acc[3], Len(acc[2]), now - acc[4])
          THEN /\ \E commit_ok \in Outcomes :
                    /\ store_msgs' = push_batch_runtimes(store_msgs, acc[2], commit_ok)
                    /\ faults' = faults + Cost(commit_ok)
               /\ runtime_batches' = Append(runtime_batches, acc[2])
               /\ new_metadata' = <<>>
               /\ changes_made' = FALSE
               /\ batch_first' = NoneVal
          ELSE /\ new_metadata' = acc[2]
               /\ changes_made' = acc[3]
               /\ batch_first' = IF new_metadata = <<>> /\ acc[2] # <<>>
                                 THEN now ELSE batch_first
               /\ UNCHANGED <<store_msgs, runtime_batches, faults>>
       /\ UNCHANGED <<now, ovVars, botVars, store_users, mhVars, rhVars,
                      md_submitted, vl_startup,
                      uploaded_uuids, tasks, pending_tasks, tq_pc, sem_value, stats,
                      temp_files, thumb_files, last_uploaded_files, bucket>>

\* process_metadata (lines 176-178) for any resource: a probed duration is queued
SubmitMetadata ==
    /\ \E m \in 1 .. NMetaIds : \E video_length \in Lengths :
          /\ Len(Submitted(Uuid(m))) < MaxPerId
          /\ metadata_queue' =
                Append(metadata_queue, [Id |-> Uuid(m), Length |-> video_length])
          /\ md_submitted' =
                (Uuid(m) :> Append(Submitted(Uuid(m)), video_length)) @@ md_submitted
    /\ UNCHANGED <<now, faults, ovVars, botVars, storeVars, mhVars, rhVars, mbVars,
                   vl_startup, batch_first, uploaded_uuids, video_lengths, tasks,
                   pending_tasks, tq_pc, sem_value, stats, temp_files, thumb_files,
                   last_uploaded_files, bucket>>

\* process_metadata in a second task that probed the same resource: the
\* duration of a resource is queued once more
SubmitDuplicate ==
    /\ \E video_length \in Lengths :
          /\ Submitted(Uuid(2)) # <<>>
          /\ Len(Submitted(Uuid(2))) < MaxPerId + 1
          /\ metadata_queue' =
                Append(metadata_queue, [Id |-> Uuid(2), Length |-> video_length])
          /\ md_submitted' =
                (Uuid(2) :> Append(Submitted(Uuid(2)), video_length)) @@ md_submitted
    /\ UNCHANGED <<now, faults, ovVars, botVars, storeVars, mhVars, rhVars, mbVars,
                   vl_startup, batch_first, uploaded_uuids, video_lengths, tasks,
                   pending_tasks, tq_pc, sem_value, stats, temp_files, thumb_files,
                   last_uploaded_files, bucket>>

\* ================================================= initial states
\* what an earlier run left in the store for message m, observed at instant t
PriorDoc(m, t, runtime) ==
    Doc(build_message_data(m, MessageUuid(m, SignedURL(m, t)), SignedURL(m, t)), runtime)

\* a record with an attachment URL that carries no expiry
PlainDoc(m, runtime) ==
    Doc(build_message_data(m, Uuid(m), PlainURL(m)), runtime)

\* the record datastore.run_tests pushes: generate_sample_message("test_msg_1"),
\* whose Expire_Timestamp is an ISO string
TestDoc ==
    Doc([Id |-> <<0, 0, PlainURL(0)>>, Discord_id |-> NSchedDocs + 1, Poster |-> "User1",
         Attachment_URL |-> PlainURL(0), Expire_Timestamp |-> StrVal,
         channelId |-> StrVal], 10)

StoreFrom(D) == [id \in {d.Id : d \in D} |-> CHOOSE d \in D : d.Id = id]

PriorTimes == {StartTime - UrlTTL - 1, StartTime - 2, StartTime - 1}

DocOptions(m) ==
    {{}} \cup {{PriorDoc(m, t, NoneVal)} : t \in PriorTimes}
         \cup {{PlainDoc(m, NoneVal)}}

RECURSIVE DocChoices(_)
DocChoices(M) ==
    IF M = {} THEN {{}}
    ELSE LET m == CHOOSE x \in M : TRUE
         IN {d \cup rest : d \in DocOptions(m), rest \in DocChoices(M \ {m})}

SchedStores == {StoreFrom(D \cup {TestDoc}) : D \in DocChoices(1 .. NSchedDocs)}

RefetchStores == {StoreFrom(D) : D \in DocChoices(PMsgs)}

MediaStores ==
    {EmptyFn, StoreFrom({PriorDoc(1, StartTime - 1, NoneVal)}),
     StoreFrom({PriorDoc(1, StartTime - 1, 10)})}

InitWithPermits(stores, buckets, histories, permits) ==
    /\ now = StartTime
    /\ faults = 0
    /\ fetch_history \in histories
    /\ running = TRUE
    /\ mh_thread = "live"
    /\ rh_thread = "live"
    /\ ready = <<>>
    /\ wait_fs = {}
    /\ counted = <<>>
    /\ poll_parity = 0
    /\ live_count = 0
    /\ message_queue = <<>>
    /\ thumbnail_queue = <<>>
    /\ put_after_full = <<>>
    /\ refetch_queue = <<>>
    /\ store_msgs \in stores
    /\ store_users = EmptyFn
    /\ pending_messages = <<>>
    /\ pending_users = EmptyFn
    /\ last_flush_time = StartTime
    /\ flushes = <<>>
    /\ refetch_heap = {}
    /\ last_message_time = 0
    /\ rh_pc = "init"
    /\ rh_wake = StartTime
    /\ dispatched = <<>>
    /\ inflight = {}
    /\ uploaded_uuids \in buckets
    /\ video_lengths = get_all_runtimes(store_msgs)
    /\ vl_startup = video_lengths
    /\ metadata_queue = <<>>
    /\ md_submitted = EmptyFn
    /\ tasks = <<>>
    /\ pending_tasks = {}
    /\ tq_pc = "sleep"
    /\ sem_value = permits
    /\ stats = [generated |-> 0, skipped |-> 0, errors |-> 0]
    /\ temp_files = EmptyFn
    /\ thumb_files = {}
    /\ last_uploaded_files = {}
    /\ bucket = EmptyFn
    /\ changes_made = FALSE
    /\ last_modification = StartTime
    /\ new_metadata = <<>>
    /\ runtime_batches = <<>>
    /\ batch_first = NoneVal

InitWith(stores, buckets, histories) ==
    InitWithPermits(stores, buckets, histories, max_concurrent_tasks)

\* ================================================= specifications
TickShort == TickTo(StartTime + ShortHorizon)
TickMedia == TickTo(StartTime + MetaFlushAge)
TickLong == TickTo(EndTime)

\* time.time() keeps growing while a component waits for an instant to come
Later(a, b) == IF a >= b THEN a ELSE b

TickIngestLive ==
    TickTo(Later(StartTime + ShortHorizon,
                 IF pending_messages # <<>>
                 THEN last_flush_time + flush_interval ELSE 0))

TickMetaLive ==
    TickTo(Later(StartTime + MetaHorizon,
                 IF changes_made THEN last_modification + MetaFlushAge ELSE 0))

TickSchedLive ==
    TickTo(Later(EndTime,
                 IF \E e \in refetch_heap : IsDue(e, now)
                 THEN last_message_time + QuietWindow + 1 ELSE 0))

\* the Ingestion Batcher fed by live events
InitIngest == InitWith(MediaStores, {{}}, {TRUE})
NextIngest == OnMessage(MaxLive) \/ MHIteration \/ TickShort
SpecIngest == InitIngest /\ [][NextIngest]_vars

\* the Ingestion Batcher whose thread keeps iterating while time passes
NextIngestLive == OnMessage(MaxLive) \/ MHIteration \/ TickIngestLive
SpecIngestLive ==
    /\ InitIngest /\ [][NextIngestLive]_vars
    /\ WF_vars(MHIteration) /\ WF_vars(TickIngestLive)

\* the Ingestion Batcher fed by events of named and of nameless posters
NextPosters ==
    OnMessage(MaxLive) \/ OnNamelessMessage(MaxLive) \/ MHIteration \/ TickShort
SpecPosters == InitIngest /\ [][NextPosters]_vars

\* the Ingestion Batcher fed by events of posters who change their avatar
NextAvatars ==
    OnMessage(MaxLive) \/ OnMessageNewAvatar(MaxLive) \/ MHIteration \/ TickShort
SpecAvatars == InitIngest /\ [][NextAvatars]_vars

\* the Ingestion Batcher up to the end of the process
NextShutdown ==
    \/ running /\ OnMessage(MaxLive)
    \/ running /\ MHIteration
    \/ running /\ TickShort
    \/ Cleanup
SpecShutdown == InitIngest /\ [][NextShutdown]_vars

\* the Expiration Scheduler seeded from the store
InitSched == InitWith(SchedStores, {{}}, {FALSE, TRUE})
NextSched == RHStart \/ RHCycle \/ RefetchMessage \/ TickLong
SpecSched == InitSched /\ [][NextSched]_vars

\* the Expiration Scheduler whose thread keeps iterating while time passes
NextSchedLive == RHStart \/ RHCycle \/ RefetchMessage \/ TickSchedLive
SpecSchedLive ==
    /\ InitSched /\ [][NextSchedLive]_vars
    /\ WF_vars(RHStart) /\ WF_vars(RHCycle) /\ WF_vars(TickSchedLive)

\* the Expiration Scheduler next to live events and the Ingestion Batcher
InitRefetch == InitWith(RefetchStores, {{}}, {FALSE, TRUE})
NextRefetch ==
    \/ OnMessage(MaxRefetchLive) \/ MHIteration
    \/ RHStart \/ RHCycle \/ RefetchMessage
    \/ TickLong
SpecRefetch == InitRefetch /\ [][NextRefetch]_vars

\* the Media Processor and its Metadata Batcher fed by live events
InitMedia == InitWith(MediaStores, SUBSET {Uuid(1)}, {TRUE})
NextMedia ==
    OnMessage(MaxMedia) \/ TQIteration \/ TaskStep \/ BatchSaveMetadata \/ TickMedia
SpecMedia == InitMedia /\ [][NextMedia]_vars

\* the Media Processor and its Metadata Batcher up to the end of the loop
NextMediaStop ==
    \/ OnMessage(MaxMedia)
    \/ tq_pc # "stopped" /\ TQIteration
    \/ tq_pc # "stopped" /\ TaskStep
    \/ tq_pc # "stopped" /\ BatchSaveMetadata
    \/ TQTerminate
    \/ TickMedia
SpecMediaStop == InitMedia /\ [][NextMediaStop]_vars

\* the batched writes of the store called with batches of valid and invalid items
BatchesOf(S) == UNION {[1 .. n -> S] : n \in 0 .. MaxBatch}

StoreMessages ==
    {build_message_data(m, Uuid(m), PlainURL(m)) : m \in PMsgs}
    \cup {[build_message_data(1, Uuid(1), PlainURL(1)) EXCEPT !.Id = <<>>]}

StoreUsers ==
    {u \in UNION {[K -> {UserData(1), UserData(2), [UserData(2) EXCEPT !.Name = ""]}] :
                    K \in SUBSET {"", "alice", "bob"}} :
        \A n \in DOMAIN u : u[n].Name \in {n, ""} \/ (n = "" /\ u[n].Name = "alice")}

StoreRuntimes ==
    {[Id |-> Uuid(m), Length |-> IF m = 1 THEN 0 ELSE 10] : m \in PMsgs}
    \cup {[Id |-> <<>>, Length |-> 10], [Id |-> Uuid(1), Length |-> NoneVal]}

StoreCalls == Len(flushes) + Len(runtime_batches)

\* MessageHandler.upload(pending_messages, pending_users)
Upload ==
    /\ StoreCalls < MaxCalls
    /\ \E messages \in BatchesOf(StoreMessages) : \E users \in StoreUsers :
       \E ok_msgs, ok_users \in Outcomes :
          /\ faults + Cost(ok_msgs) + Cost(ok_users) <= MaxFaults
          /\ faults' = faults + Cost(ok_msgs) + Cost(ok_users)
          /\ store_msgs' = push_batch_msgs(store_msgs, messages, ok_msgs)
          /\ store_users' = push_batch_user_data(store_users, users, ok_users)
          /\ flushes' = Append(flushes, <<messages, users>>)
    /\ UNCHANGED <<now, ovVars, botVars, pending_messages, pending_users,
                   last_flush_time, rhVars, tgVars, changes_made, last_modification,
                   new_metadata, runtime_batches, histVars>>

\* ThumbnailGenerator.upload_runtime(runtime_batch)
UploadRuntime ==
    /\ StoreCalls < MaxCalls
    /\ \E runtimes \in BatchesOf(StoreRuntimes) : \E commit_ok \in Outcomes :
          /\ faults' = faults + Cost(commit_ok)
          /\ store_msgs' = push_batch_runtimes(store_msgs, runtimes, commit_ok)
          /\ runtime_batches' = Append(runtime_batches, runtimes)
    /\ UNCHANGED <<now, ovVars, botVars, store_users, mhVars, rhVars, tgVars,
                   changes_made, last_modification, new_metadata, histVars>>

NextStore == Upload \/ UploadRuntime
SpecStore == InitIngest /\ [][NextStore]_vars

\* the Media Processor with tasks running side by side
InitOverlap == InitWithPermits(MediaStores, SUBSET {Uuid(1)}, {TRUE}, overlap_tasks)
SpecOverlap == InitOverlap /\ [][NextMedia]_vars

\* the Metadata Batcher fed with probed durations
TickMeta == TickTo(StartTime + MetaHorizon)
InitMeta == InitWith({EmptyFn}, {{}}, {TRUE})
NextMeta == SubmitMetadata \/ BatchSaveMetadata \/ TickMeta
SpecMeta == InitMeta /\ [][NextMeta]_vars

\* the Metadata Batcher whose coroutine keeps iterating while time passes
NextMetaLive == SubmitMetadata \/ BatchSaveMetadata \/ TickMetaLive
SpecMetaLive ==
    /\ InitMeta /\ [][NextMetaLive]_vars
    /\ WF_vars(BatchSaveMetadata) /\ WF_vars(TickMetaLive)

\* the Metadata Batcher fed with durations of known resources and with duplicates
NextMetaDup == SubmitMetadata \/ SubmitDuplicate \/ BatchSaveMetadata \/ TickMeta
SpecMetaDup == InitIngest /\ [][NextMetaDup]_vars

\* the Media Processor, the Metadata Batcher and the Ingestion Batcher together
NextOrder ==
    \/ OnMessage(MaxMedia) \/ MHIteration
    \/ TQIteration \/ TaskStep \/ BatchSaveMetadata
    \/ TickMedia
SpecOrder == InitMedia /\ [][NextOrder]_vars

\* process_message applied to attachment URLs of every shape
ExValues == {StartTime, StartTime + 1}

URLShapes(m) ==
    {PlainURL(m)}
    \cup {[path |-> m, query |-> << <<"ex", ToHex(e)>>, <<"is", ToHex(StartTime)>> >>] :
            e \in ExValues}
    \cup {[path |-> m, query |-> << <<"is", ToHex(StartTime)>>, <<"ex", ToHex(e)>> >>] :
            e \in ExValues}

ProcessShaped ==
    /\ live_count < MaxShaped
    /\ \E m \in PMsgs : \E url \in URLShapes(m) : ProcessMessageEffect(m, url)
    /\ live_count' = live_count + 1
    /\ UNCHANGED <<now, faults, ovVars, storeVars, mhVars, rhVars, tgVars, mbVars,
                   histVars>>

InitId == InitWith({EmptyFn}, {{}}, {TRUE})
NextId == ProcessShaped
SpecId == InitId /\ [][NextId]_vars

\* the whole system
Init == InitWith(MediaStores, SUBSET {Uuid(1)}, {FALSE})
Next ==
    \/ OnMessage(MaxMedia) \/ MHIteration
    \/ RHStart \/ RHCycle \/ RefetchMessage
    \/ TQIteration \/ TaskStep \/ BatchSaveMetadata
    \/ TickLong
Spec == Init /\ [][Next]_vars


\* ================================================= worker threads
\* overlord.py 130-137: run_message_handler_loop leaves its while loop only
\* through the except branch, when start_live_message_handling raises (for
\* example self.db.batch() at datastore.py 101, outside the try of
\* push_batch_msgs); the inner loop itself is while True and never returns
MHRaise ==
    /\ mh_thread = "live"
    /\ faults < MaxFaults
    /\ faults' = faults + 1
    /\ mh_thread' = "exited"
    /\ UNCHANGED <<now, poll_parity, fetch_history, running, rh_thread, ready, wait_fs,
                   counted, botVars, storeVars, mhVars, rhVars, tgVars, mbVars, histVars>>

\* overlord.py 140-147: the same wrapper around RefetchHandler.start
RHRaise ==
    /\ rh_thread = "live"
    /\ faults < MaxFaults
    /\ faults' = faults + 1
    /\ rh_thread' = "exited"
    /\ UNCHANGED <<now, poll_parity, fetch_history, running, mh_thread, ready, wait_fs,
                   counted, botVars, storeVars, mhVars, rhVars, tgVars, mbVars, histVars>>

\* the two worker threads and the flag cleanup() clears; a thread runs the
\* body of its loop for as long as it has not left it
\* message_handler.py 32-45: the turn of the ingestion loop in which get() times
\* out and nothing is flushed; the loop sleeps 0.1 s and goes round again
MHPoll ==
    /\ mh_thread = "live"
    /\ message_queue = <<>>
    /\ ~(ShouldFlush(Len(pending_messages), now - last_flush_time)
          /\ pending_messages # <<>>)
    /\ poll_parity' = 1 - poll_parity
    /\ UNCHANGED <<now, faults, fetch_history, running, mh_thread, rh_thread, ready,
                   wait_fs, counted, botVars, storeVars, mhVars, rhVars, tgVars,
                   mbVars, histVars>>

\* refetch_handler.py 60: the scheduler loop is inside time.sleep(check_interval)
\* and will go round again
RHPoll ==
    /\ rh_thread = "live"
    /\ rh_pc = "loop"
    /\ now < rh_wake
    /\ poll_parity' = 1 - poll_parity
    /\ UNCHANGED <<now, faults, fetch_history, running, mh_thread, rh_thread, ready,
                   wait_fs, counted, botVars, storeVars, mhVars, rhVars, tgVars,
                   mbVars, histVars>>

InitFlag == InitWith({StoreFrom({PriorDoc(1, StartTime - 1, NoneVal)})}, {{}}, {FALSE})
NextFlag ==
    \/ OnMessage(MaxLive)
    \/ mh_thread = "live" /\ MHIteration
    \/ MHPoll
    \/ rh_thread = "live" /\ RHStart
    \/ rh_thread = "live" /\ RHCycle
    \/ RHPoll
    \/ MHRaise
    \/ RHRaise
    \/ Cleanup
    \/ TickShort
SpecFlag ==
    /\ InitFlag
    /\ [][NextFlag]_vars
    /\ WF_vars(mh_thread = "live" /\ MHIteration)
    /\ WF_vars(MHPoll)
    /\ WF_vars(rh_thread = "live" /\ RHStart)
    /\ WF_vars(rh_thread = "live" /\ RHCycle)
    /\ WF_vars(RHPoll)
    /\ WF_vars(TickShort)

\* ================================================= event loop of the thumbnail thread
\* The coroutines of thumb_queue_handler run on one asyncio event loop: a queue
\* of handles, each run to its next await. TQIteration and TaskStep above are
\* the runs in which every done callback ran before the handler resumed; the
\* actions below follow the queue handle by handle. The file and store effects
\* of process_video are those of TaskStep and are not repeated here: a task is
\* suspended on its download ("download"), then on the executor ("thumb").
\* A handle is <<"step", i>> (task i resumes), <<"discard", i>> (the done
\* callback pending_tasks.discard), <<"done", i>> (the done callback
\* _on_completion of asyncio.wait) or <<"handler", 0>> (the handler resumes).
InReady(h) == \E k \in 1 .. Len(ready) : ready[k] = h

\* _wait's finally removes _on_completion from every future; the handles of the
\* ended wait that are still queued find their waiter done and do nothing
RECURSIVE StripDone(_)
StripDone(q) ==
    IF q = <<>> THEN <<>>
    ELSE IF Head(q)[1] = "done" THEN StripDone(Tail(q))
         ELSE <<Head(q)>> \o StripDone(Tail(q))

\* asyncio.Semaphore (CPython 3.11): _waiters in arrival order, which is task
\* order; a waiter that was woken stays in _waiters until it runs
Waiters(ts) == {j \in 1 .. Len(ts) : ts[j].pc = "acquire"}

Locked(ts, v) == ~CanAcquire(v) \/ \E j \in 1 .. Len(ts) : ts[j].pc \in {"acquire", "woken"}

\* Semaphore._wake_up_next: the first waiter is given the permit
WakeNext(ts, v) ==
    IF Waiters(ts) = {} THEN <<ts, v, <<>>>>
    ELSE LET j == CHOOSE x \in Waiters(ts) : \A y \in Waiters(ts) : x <= y
         IN <<[ts EXCEPT ![j].pc = "woken"], v - 1, <<<<"step", j>>>>>>

SemRelease_leak(v) == v

\* Semaphore.release: self._value += 1
SemRelease(v) == v + 1

\* process_with_semaphore returns: __aexit__ releases, then the task's done
\* callbacks are scheduled in the order they were added
Complete(ts, v, i, status) ==
    LET r == WakeNext([ts EXCEPT ![i] = Return(ts[i], status)], SemRelease(v))
    IN <<r[1], r[2],
         r[3] \o <<<<"discard", i>>>>
              \o (IF i \in wait_fs THEN <<<<"done", i>>>> ELSE <<>>)>>

\* process_video up to its first await, the permit held
Enter(ts, v, i) ==
    LET id == ts[i].video.Id
        t == [ts[i] EXCEPT !.metadata_exists = id \in DOMAIN video_lengths,
                           !.thumbnail_exists = id \in uploaded_uuids]
    IN IF SkipCondition(t.metadata_exists, t.thumbnail_exists)
       THEN Complete([ts EXCEPT ![i] = t], v, i, "skipped")
       ELSE <<[ts EXCEPT ![i] = [t EXCEPT !.pc = "download"]], v, <<>>>>

\* the values of <<tasks, sem_value, new handles, faults>> one step of task i can leave
StepOutcomes(i) ==
    LET pc == tasks[i].pc
        With(o, f) == <<o[1], o[2], o[3], f>>
    IN IF pc = "created"
       THEN IF Locked(tasks, sem_value)
            THEN {<<[tasks EXCEPT ![i].pc = "acquire"], sem_value, <<>>, faults>>}
            ELSE {With(Enter(tasks, sem_value - 1, i), faults)}
       ELSE IF pc = "woken"
       THEN LET w == IF sem_value > 0 THEN WakeNext(tasks, sem_value)
                     ELSE <<tasks, sem_value, <<>>>>
                e == Enter(w[1], w[2], i)
            IN {<<e[1], e[2], w[3] \o e[3], faults>>}
       ELSE IF pc = "download"
       THEN {<<[tasks EXCEPT ![i].pc = "thumb"], sem_value, <<>>, faults>>}
            \cup (IF faults < MaxFaults
                  THEN {With(Complete(tasks, sem_value, i, "error"), faults + 1)}
                  ELSE {})
       ELSE IF pc = "thumb"
       THEN {With(Complete(tasks, sem_value, i, "generated"), faults)}
       ELSE {}

LoopTaskStep(i) ==
    /\ ready # <<>> /\ Head(ready) = <<"step", i>>
    /\ \E o \in StepOutcomes(i) :
          /\ tasks' = o[1]
          /\ sem_value' = o[2]
          /\ ready' = Tail(ready) \o o[3]
          /\ faults' = o[4]
    /\ UNCHANGED <<now, poll_parity, fetch_history, running, mh_thread, rh_thread, wait_fs,
                   counted, botVars, storeVars, mhVars, rhVars, mbVars, histVars,
                   uploaded_uuids, video_lengths, metadata_queue, pending_tasks, tq_pc,
                   stats, temp_files, thumb_files, last_uploaded_files, bucket>>

\* line 244: task.add_done_callback(pending_tasks.discard)
LoopDiscard(i) ==
    /\ ready # <<>> /\ Head(ready) = <<"discard", i>>
    /\ pending_tasks' = pending_tasks \ {i}
    /\ ready' = Tail(ready)
    /\ UNCHANGED <<now, faults, poll_parity, fetch_history, running, mh_thread, rh_thread,
                   wait_fs, counted, botVars, storeVars, mhVars, rhVars, mbVars, histVars,
                   uploaded_uuids, video_lengths, metadata_queue, tasks, tq_pc, sem_value,
                   stats, temp_files, thumb_files, last_uploaded_files, bucket>>

\* _on_completion under FIRST_COMPLETED: the waiter of asyncio.wait is resolved,
\* which schedules the handler; a resolved waiter is left alone
LoopOnCompletion(i) ==
    /\ ready # <<>> /\ Head(ready) = <<"done", i>>
    /\ ready' = IF InReady(<<"handler", 0>>) THEN Tail(ready)
                ELSE Append(Tail(ready), <<"handler", 0>>)
    /\ UNCHANGED <<now, faults, poll_parity, fetch_history, running, mh_thread, rh_thread,
                   wait_fs, counted, botVars, storeVars, mhVars, rhVars, tgVars, mbVars,
                   histVars>>

\* the handler runs from the return of its await to its next await: lines 255-267
\* count the done members of the set asyncio.wait was called with, line 41 draws
\* the queue, lines 44-46 wait on pending_tasks as it is now, or sleep
LoopHandler ==
    LET done == {i \in wait_fs : tasks[i].pc = "done"}
        n == Len(tasks)
        k == Len(thumbnail_queue)
        pending1 == pending_tasks \cup (n + 1 .. n + k)
        ts1 == tasks \o [j \in 1 .. k |-> NewTask(thumbnail_queue[j])]
    IN /\ ready # <<>> /\ Head(ready) = <<"handler", 0>>
       /\ stats' = [generated |-> stats.generated + CountStatus(done, "generated"),
                    skipped |-> stats.skipped + CountStatus(done, "skipped"),
                    errors |-> stats.errors + CountStatus(done, "error")]
       /\ counted' = counted \o SetToSeq(done)
       /\ tasks' = ts1
       /\ thumbnail_queue' = <<>>
       /\ pending_tasks' = pending1
       /\ tq_pc' = IF pending1 # {} THEN "wait" ELSE "sleep"
       /\ wait_fs' = pending1
       /\ ready' = StripDone(Tail(ready))
                   \o [j \in 1 .. k |-> <<"step", n + j>>]
                   \o SetToSeq({<<"done", i>> : i \in {x \in pending1 : ts1[x].pc = "done"}})
       /\ UNCHANGED <<now, faults, poll_parity, fetch_history, running, mh_thread,
                      rh_thread, live_count, message_queue, put_after_full, storeVars,
                      mhVars, rhVars, mbVars, histVars, uploaded_uuids, video_lengths,
                      metadata_queue, sem_value, temp_files, thumb_files,
                      last_uploaded_files, bucket>>

\* one handle of the ready queue is run
LoopRun ==
    \/ LoopHandler
    \/ \E i \in 1 .. Len(tasks) : LoopTaskStep(i)
    \/ \E i \in 1 .. Len(tasks) : LoopDiscard(i)
    \/ \E i \in 1 .. Len(tasks) : LoopOnCompletion(i)

\* the timer of asyncio.sleep(1) fires (and the first step of the handler)
SleepOver ==
    /\ tq_pc = "sleep"
    /\ ~InReady(<<"handler", 0>>)
    /\ ready' = Append(ready, <<"handler", 0>>)
    /\ UNCHANGED <<now, faults, poll_parity, fetch_history, running, mh_thread, rh_thread,
                   wait_fs, counted, botVars, storeVars, mhVars, rhVars, tgVars, mbVars,
                   histVars>>

\* the download or the executor job task i awaits comes to its end
IOComplete ==
    \E i \in 1 .. Len(tasks) :
        /\ tasks[i].pc \in {"download", "thumb"}
        /\ ~InReady(<<"step", i>>)
        /\ ready' = Append(ready, <<"step", i>>)
        /\ UNCHANGED <<now, faults, poll_parity, fetch_history, running, mh_thread,
                       rh_thread, wait_fs, counted, botVars, storeVars, mhVars, rhVars,
                       tgVars, mbVars, histVars>>

NextLoop == OnMessage(MaxLive) \/ LoopRun \/ SleepOver \/ IOComplete
SpecLoop == InitOverlap /\ [][NextLoop]_vars
SpecLoopLive ==
    /\ InitOverlap
    /\ [][NextLoop]_vars
    /\ WF_vars(LoopRun)
    /\ WF_vars(SleepOver)
    /\ WF_vars(IOComplete)

\* ================================================= claims
Running == {i \in 1 .. Len(tasks) : InBody(tasks[i])}

\* C1: a task whose resource id is in both video_lengths and uploaded_uuids when
\* process_video runs returns "skipped" and downloads, probes, extracts and
\* uploads nothing.
C1_IdempotentSkip ==
    \A i \in 1 .. Len(tasks) :
        (tasks[i].pc # "created" /\ tasks[i].metadata_exists /\ tasks[i].thumbnail_exists)
        => /\ tasks[i].pc = "done" /\ tasks[i].status = "skipped"
           /\ ~tasks[i].downloaded /\ ~tasks[i].probed
           /\ ~tasks[i].extracted /\ ~tasks[i].uploaded

C1_Witness ==
    \E i \in 1 .. Len(tasks) :
        /\ tasks[i].status = "skipped"
        /\ tasks[i].video.Id \in DOMAIN video_lengths
        /\ tasks[i].video.Id \in uploaded_uuids

\* C2: a descriptor put on the thumbnail queue after its resource, unknown at
\* startup, has had its duration accepted and its thumbnail uploaded causes no
\* download and no upload.
C2_SecondObservation ==
    \A i \in 1 .. Len(tasks) :
        put_after_full[i] => ~tasks[i].downloaded /\ ~tasks[i].uploaded

\* C3: an iteration of start_live_message_handling flushes exactly when the
\* buffer it holds after the dequeue is non-empty and its length >= batch_size
\* or the time since the last flush >= flush_interval.
C3_FlushTriggers ==
    [][MHIteration =>
         LET flushed == Len(flushes') > Len(flushes)
             buf == IF flushed THEN flushes'[Len(flushes')][1] ELSE pending_messages'
         IN flushed <=> /\ buf # <<>>
                        /\ \/ Len(buf) >= batch_size
                           \/ now - last_flush_time >= flush_interval]_vars

C3_Witness ==
    \E i, j \in 1 .. Len(flushes) :
        /\ Len(flushes[i][1]) >= batch_size
        /\ Len(flushes[j][1]) < batch_size

\* C4: after every flush of the live loop pending_messages and pending_users
\* are both empty and last_flush_time is reset.
C4_BuffersCleared ==
    [][(MHIteration /\ Len(flushes') > Len(flushes))
         => /\ pending_messages' = <<>>
            /\ DOMAIN pending_users' = {}
            /\ last_flush_time' = now]_vars

\* C5: a run of process_expired_messages at time T dispatches exactly the heap
\* entries with expire_at <= T, in non-decreasing expire_at order, and leaves
\* every entry with expire_at > T in the heap.
C5_SchedulerCorrectness ==
    [][(RHCycle /\ last_message_time' + QuietWindow < now) =>
         LET before == refetch_heap \cup {e \in SeqToSet(refetch_queue) : e[1] >= 0}
             popped == SubSeq(dispatched', Len(dispatched) + 1, Len(dispatched'))
         IN /\ SeqToSet(popped) = {e \in before : e[1] <= now}
            /\ Len(popped) = Cardinality(SeqToSet(popped))
            /\ \A a, b \in 1 .. Len(popped) : a < b => popped[a][1] <= popped[b][1]
            /\ refetch_heap' = {e \in before : e[1] > now}]_vars

C5_Witness ==
    /\ Len(dispatched) >= 2
    /\ dispatched[1][1] < dispatched[2][1]
    /\ refetch_heap # {}

\* C6: an input-queue entry whose expire_at is not numeric never enters the
\* heap, every heap entry has a numeric expire_at, and the numeric entries
\* drained in the same cycle are inserted.
C6_InvalidInputDropped ==
    [][/\ \A e \in refetch_heap' : e[1] >= 0
       /\ RHCycle => \A e \in SeqToSet(refetch_queue) :
                        IF e[1] >= 0
                        THEN e \in refetch_heap' \cup SeqToSet(dispatched')
                        ELSE e \notin refetch_heap']_vars

C6_Witness ==
    /\ rh_pc = "loop" /\ refetch_queue = <<>>
    /\ last_message_time > 0
    /\ refetch_heap # {}
    /\ \E i \in DOMAIN store_msgs : store_msgs[i].Expire_Timestamp = StrVal

\* C7: the value held in video_lengths for an id is the first value submitted
\* to the metadata queue for it, or the value loaded at startup.
C7_FirstSubmittedWins ==
    \A id \in DOMAIN video_lengths :
        IF id \in DOMAIN vl_startup
        THEN video_lengths[id] = vl_startup[id]
        ELSE video_lengths[id] = Submitted(id)[1]

RECURSIVE FirstValid(_)
FirstValid(lengths) ==
    IF lengths = <<>> THEN NoneVal
    ELSE IF Head(lengths) > 0 THEN Head(lengths) ELSE FirstValid(Tail(lengths))

Batched == Flatten(runtime_batches) \o new_metadata

\* C7 (amended): the value held in video_lengths for an id is the first valid
\* (non-zero) value submitted for it, or the value loaded at startup; an id
\* is put in the batch at most once, with that value, and never an id loaded
\* at startup.
C7_FirstValidWins ==
    /\ \A id \in DOMAIN video_lengths :
          IF id \in DOMAIN vl_startup
          THEN video_lengths[id] = vl_startup[id]
          ELSE video_lengths[id] = FirstValid(Submitted(id))
    /\ \A i \in 1 .. Len(Batched) :
          /\ Batched[i].Id \notin DOMAIN vl_startup
          /\ Batched[i].Length = FirstValid(Submitted(Batched[i].Id))
          /\ \A j \in 1 .. Len(Batched) : Batched[j].Id = Batched[i].Id => j = i

C7_Witness ==
    \E id \in DOMAIN video_lengths :
        /\ id \notin DOMAIN vl_startup
        /\ metadata_queue = <<>>
        /\ \E k \in 1 .. Len(Submitted(id)) :
              Submitted(id)[k] > 0 /\ Submitted(id)[k] # video_lengths[id]

DiffersOnlyInEx(u, v) ==
    /\ u.path = v.path
    /\ Len(u.query) = Len(v.query)
    /\ \A k \in 1 .. Len(u.query) :
          /\ u.query[k][1] = v.query[k][1]
          /\ u.query[k][1] # "ex" => u.query[k][2] = v.query[k][2]

\* C8: for the same poster and creation instant, two attachment URLs that
\* differ only in the value of the ex parameter, wherever it stands in the
\* query string, get the same resource id.
C8_IdDeterminism ==
    \A i, j \in 1 .. Len(message_queue) :
        LET a == message_queue[i][1]
            b == message_queue[j][1]
        IN (a.Discord_id = b.Discord_id
            /\ DiffersOnlyInEx(a.Attachment_URL, b.Attachment_URL))
           => a.Id = b.Id

\* C9: once a Runtime is written for a resource id the store keeps it, with
\* the same value, whatever operation comes later.
C9_DurationImmutable ==
    [][\A id \in DOMAIN store_msgs :
          store_msgs[id].Runtime # NoneVal
          => /\ id \in DOMAIN store_msgs'
             /\ store_msgs'[id].Runtime = store_msgs[id].Runtime]_vars

\* C10: at most max_concurrent_tasks tasks are inside the body of
\* process_video, and every permit not held by such a task is free.
C10_BoundedConcurrency ==
    /\ Cardinality(Running) <= max_concurrent_tasks
    /\ sem_value = max_concurrent_tasks - Cardinality(Running)

C10_Witness ==
    /\ Cardinality(Running) = max_concurrent_tasks
    /\ \E i \in 1 .. Len(tasks) : tasks[i].pc = "created"

\* C11: an iteration of batch_save_metadata flushes a non-empty batch whenever
\* its length >= MetaBatchSize or the time since its first unflushed entry was
\* accepted >= MetaFlushAge, and the batch is empty after a flush.
C11_FlushThresholds ==
    [][BatchSaveMetadata =>
         LET flushed == Len(runtime_batches') > Len(runtime_batches)
             batch == IF flushed THEN runtime_batches'[Len(runtime_batches')]
                      ELSE new_metadata'
             first == IF new_metadata # <<>> THEN batch_first ELSE now
         IN /\ (batch # <<>> /\ (Len(batch) >= MetaBatchSize
                                 \/ now - first >= MetaFlushAge)) => flushed
            /\ flushed => new_metadata' = <<>>]_vars

\* C12: when cleanup runs while the Ingestion Batcher holds a non-empty buffer,
\* the buffered messages and posters are flushed, once, before the process ends.
C12_ShutdownFlush ==
    [][Cleanup =>
         ((pending_messages # <<>> \/ DOMAIN pending_users # {})
          => /\ Len(flushes') = Len(flushes) + 1
             /\ flushes'[Len(flushes')] = <<pending_messages, pending_users>>)]_vars

\* C13: every observation (live event, history walk or re-fetch result) of an
\* attachment that carries an expire_at puts the entry (expire_at, id,
\* platform message id, channel id) on the scheduler's input queue.
C13_LiveSupplement ==
    [][Len(message_queue') > Len(message_queue) =>
         LET d == message_queue'[Len(message_queue')][1]
         IN d.Expire_Timestamp # NoneVal =>
              <<d.Expire_Timestamp, d.Id, d.Discord_id, d.channelId>>
                 \in SeqToSet(refetch_queue')]_vars

\* C14: a successful re-fetch leaves, in the scheduler's working set, a fresh
\* entry with the refreshed expire_at for the resource exactly when the
\* re-fetched attachment carries an expiry, and never the popped entry.
C14_ReinsertAfterRefetch ==
    [][(RefetchMessage /\ Len(message_queue') > Len(message_queue)) =>
         LET d == message_queue'[Len(message_queue')][1]
             working == refetch_heap' \cup SeqToSet(refetch_queue')
         IN /\ \A e \in SeqToSet(dispatched) : e \notin working
            /\ (d.Expire_Timestamp # NoneVal) <=>
                  (\E e \in working : /\ e[3] = d.Discord_id
                                      /\ e[1] = d.Expire_Timestamp)]_vars

\* C15: an entry is dispatched at most once; a dispatched entry, whether its
\* re-fetch succeeds or fails, is in neither the heap nor the input queue
\* afterwards; a dispatch that raises does not stop the pops of the other due
\* entries, and a failing refetch_message changes neither heap nor queue.
C15_FailureHandling ==
    [][/\ \A a, b \in 1 .. Len(dispatched') :
             dispatched'[a] = dispatched'[b] => a = b
       /\ \A a \in 1 .. Len(dispatched') :
             dispatched'[a] \notin refetch_heap' \cup SeqToSet(refetch_queue')
       /\ (RHCycle /\ last_message_time' + QuietWindow < now) =>
             \A e \in refetch_heap \cup SeqToSet(refetch_queue) :
                 (e[1] >= 0 /\ e[1] <= now) => e \in SeqToSet(dispatched')
       /\ RefetchMessage =>
             refetch_heap' = refetch_heap /\ refetch_queue' = refetch_queue]_vars

C15_Witness ==
    /\ faults = 1
    /\ Len(dispatched) >= 2
    /\ Cardinality(inflight) = Len(dispatched) - 1
    /\ message_queue = <<>>

\* C16: with fetch_history false, start() enqueues exactly one entry per stored
\* record whose Expire_Timestamp, Discord_id and channelId are all set (when the
\* store can be read); with fetch_history true it enqueues nothing.
C16_StartupSeeding ==
    [][RHStart =>
         LET put == SubSeq(refetch_queue', Len(refetch_queue) + 1, Len(refetch_queue'))
             complete == {i \in DOMAIN store_msgs :
                            /\ store_msgs[i].Expire_Timestamp # NoneVal
                            /\ store_msgs[i].Discord_id # NoneVal
                            /\ store_msgs[i].channelId # NoneVal}
         IN IF fetch_history THEN put = <<>>
            ELSE faults' = faults =>
                   /\ Len(put) = Cardinality(complete)
                   /\ SeqToSet(put) =
                        {<<store_msgs[i].Expire_Timestamp, i, store_msgs[i].Discord_id,
                           store_msgs[i].channelId>> : i \in complete}]_vars

C16_Witness ==
    /\ rh_pc = "loop" /\ ~fetch_history /\ faults = 0 /\ last_message_time = 0
    /\ Len(refetch_queue) >= 2
    /\ \E i \in DOMAIN store_msgs : store_msgs[i].Expire_Timestamp = NoneVal

\* C17: a poster without a name is never buffered and never written to the
\* store, while the message that came with it is buffered and flushed like
\* any other.
C17_NamelessPoster ==
    [][/\ \A n \in DOMAIN pending_users' : n # "" /\ pending_users'[n].Name # ""
       /\ \A n \in DOMAIN store_users' : n # "" /\ store_users'[n].Name # ""
       /\ \A i \in 1 .. Len(flushes') : "" \notin DOMAIN flushes'[i][2]
       /\ (MHIteration /\ message_queue # <<>>) =>
             LET message == Head(message_queue)[1]
                 buf == IF Len(flushes') > Len(flushes)
                        THEN flushes'[Len(flushes')][1] ELSE pending_messages'
             IN buf # <<>> /\ buf[Len(buf)] = message]_vars

C17_Witness ==
    \E i \in 1 .. Len(flushes) : \E k \in 1 .. Len(flushes[i][1]) :
        LET message == flushes[i][1][k]
        IN /\ message.Poster = ""
           /\ message.Id \in DOMAIN store_msgs
           /\ store_msgs[message.Id].Poster = ""
           /\ DOMAIN store_users # {}

\* C18: once the duration of a resource unknown at startup has been flushed
\* by the Metadata Batcher and its message record by the Ingestion Batcher,
\* no write having failed, the record holds that duration, whichever flush
\* came first.
C18_OrderingTolerance ==
    \A id \in DOMAIN video_lengths \ DOMAIN vl_startup :
        (/\ faults = 0
         /\ \E i \in 1 .. Len(runtime_batches) :
              \E k \in 1 .. Len(runtime_batches[i]) : runtime_batches[i][k].Id = id
         /\ id \in DOMAIN store_msgs
         /\ Len(flushes) = 1)
        => store_msgs[id].Runtime = video_lengths[id]

C20_QuietWindow ==
    [][RHCycle =>
         /\ Len(dispatched') > Len(dispatched) =>
               /\ refetch_queue = <<>>
               /\ now - last_message_time >= QuietWindow
         /\ refetch_queue # <<>> => dispatched' = dispatched]_vars

C20_Witness ==
    /\ rh_pc = "loop" /\ rh_wake > now
    /\ dispatched = <<>>
    /\ \E e \in refetch_heap : e[1] <= now

\* C21: when process_video returns for a resource id, with whatever status, the
\* temp folder holds no file for that id.
C21_TempFileCleanup ==
    [][\A i \in 1 .. Len(tasks) :
          (tasks[i].pc # "done" /\ tasks'[i].pc = "done")
          => tasks[i].video.Id \notin DOMAIN temp_files']_vars

\* C22: a task returns "generated" only if it queued a duration or produced a
\* thumbnail file, and "skipped" whenever it produced neither without raising.
C22_TaskStatus ==
    \A i \in 1 .. Len(tasks) :
        LET produced == tasks[i].probe_result # NoneVal \/ tasks[i].made
        IN tasks[i].pc = "done" =>
             /\ tasks[i].status = "generated" => produced
             /\ (~produced /\ tasks[i].dl # "raised") => tasks[i].status = "skipped"

\* C23: a task whose download failed (exception or non-200 response) returns
\* "error", and a later task for the same resource id that is not skipped
\* downloads afresh.
C23_DownloadFailureIsolation ==
    \A i \in 1 .. Len(tasks) :
        tasks[i].dl \in {"status", "raised"} =>
          /\ tasks[i].pc = "done" => tasks[i].status = "error"
          /\ \A j \in i + 1 .. Len(tasks) :
                (/\ tasks[j].video.Id = tasks[i].video.Id
                 /\ tasks[j].pc # "created"
                 /\ tasks[j].status # "skipped") => tasks[j].downloaded

\* C24: a thumbnail is uploaded to the object store at most once in a run; its
\* name is in last_uploaded_files exactly when an upload of it succeeded; a
\* task that ends with the file present and the name not yet in the set tries
\* the upload, so a failed upload is tried again by a later task.
C24_UploadDedup ==
    [][/\ \A id \in DOMAIN bucket' : bucket'[id] <= 1
       /\ last_uploaded_files' = DOMAIN bucket'
       /\ \A i \in 1 .. Len(tasks) :
             LET id == tasks[i].video.Id
             IN (/\ tasks[i].pc # "done" /\ tasks'[i].status = "generated"
                 /\ id \notin last_uploaded_files /\ id \in thumb_files')
                => \/ tasks'[i].uploaded /\ id \in last_uploaded_files'
                   \/ ~tasks'[i].uploaded /\ faults' > faults]_vars

C24_Witness ==
    \E i, j \in 1 .. Len(tasks) :
        /\ i < j /\ tasks[i].video.Id = tasks[j].video.Id
        /\ tasks[i].pc = "done" /\ tasks[i].made /\ ~tasks[i].uploaded
        /\ tasks[j].uploaded
        /\ bucket[tasks[j].video.Id] = 1

\* C25: a task probes at most once; a step that ends a probe queues the entry
\* {Id, Length} exactly when the probe returned a value and never touches
\* video_lengths; an id is in video_lengths only if it was loaded at startup
\* or a valid duration was queued for it, so after a failed probe the next
\* task for the id finds the duration missing and probes again.
C25_ProbeFailure ==
    [][/\ \A i \in 1 .. Len(tasks') :
             /\ tasks'[i].probed => tasks'[i].pc \in {"thumb", "done"}
             /\ tasks'[i].metadata_exists =>
                   \/ tasks'[i].video.Id \in DOMAIN vl_startup
                   \/ \E k \in 1 .. Len(Submitted(tasks'[i].video.Id)) :
                         Submitted(tasks'[i].video.Id)[k] # NoneVal
       /\ \A i \in 1 .. Len(tasks) :
             (tasks[i].pc = "probe" /\ tasks'[i].pc # "probe") =>
               /\ video_lengths' = video_lengths
               /\ IF tasks'[i].probe_result # NoneVal
                  THEN metadata_queue' =
                         Append(metadata_queue, [Id |-> tasks[i].video.Id,
                                                 Length |-> tasks'[i].probe_result])
                  ELSE metadata_queue' = metadata_queue]_vars

C25_Witness ==
    \E i, j \in 1 .. Len(tasks) :
        /\ i < j /\ tasks[i].video.Id = tasks[j].video.Id
        /\ tasks[i].probed /\ tasks[i].probe_result = NoneVal
        /\ tasks[j].probed /\ tasks[j].probe_result # NoneVal

\* C29: no step changes uploaded_uuids; video_lengths changes only in a step
\* of the Metadata Batcher, which adds ids that were absent and leaves every
\* id already present with its value.
C29_ProcessingStateFrame ==
    [][/\ uploaded_uuids' = uploaded_uuids
       /\ \A id \in DOMAIN video_lengths :
             id \in DOMAIN video_lengths' /\ video_lengths'[id] = video_lengths[id]
       /\ video_lengths' # video_lengths => BatchSaveMetadata]_vars

C29_Witness ==
    /\ DOMAIN video_lengths # DOMAIN vl_startup
    /\ uploaded_uuids # {}
    /\ \E i \in 1 .. Len(tasks) : tasks[i].uploaded

\* C30: once the loop of thumb_queue_handler has ended and metadata_task was
\* cancelled, every duration entry that batch_save_metadata had accepted is in
\* a batch that was handed to push_batch_runtimes.
C30_MetadataShutdownFlush ==
    tq_pc = "stopped" =>
        \A id \in DOMAIN video_lengths \ DOMAIN vl_startup :
            \E b \in 1 .. Len(runtime_batches) :
                \E k \in 1 .. Len(runtime_batches[b]) : runtime_batches[b][k].Id = id

\* C26: the first poster draft dequeued for a name since the last flush is the
\* one buffered for that name, also when an earlier flush window had buffered
\* another draft for the same name.
C26_WindowScopedDedup ==
    [][(message_queue # <<>> /\ message_queue' = Tail(message_queue)) =>
          LET author == Head(message_queue)[2]
          IN (/\ author.Name # ""
              /\ \A k \in 1 .. Len(pending_messages) :
                    pending_messages[k].Poster # author.Name)
             => pending_users'[author.Name] = author]_vars

FlushedMessages == Flatten([f \in 1 .. Len(flushes) |-> flushes[f][1]])

\* C27: the messages handed to upload() so far followed by the buffered ones
\* are the messages dequeued so far, in dequeue order: a step that dequeues a
\* message appends it to that sequence, and no other step changes the sequence
\* (a flush moves the buffer to the flushed part whether or not the upsert
\* succeeded, so no message is handed to the store twice or out of order).
C27_IngestionFifo ==
    [][FlushedMessages' \o pending_messages' =
         IF message_queue # <<>> /\ message_queue' = Tail(message_queue)
         THEN Append(FlushedMessages \o pending_messages, Head(message_queue)[1])
         ELSE FlushedMessages \o pending_messages]_vars

C27_Witness ==
    /\ Len(flushes) >= 2
    /\ faults >= 1
    /\ \E k \in 1 .. Len(flushes[1][1]) : flushes[1][1][k].Id \notin DOMAIN store_msgs

LastOf(S) == CHOOSE k \in S : \A j \in S : j <= k

\* C28: a batched write whose commit succeeds stores every item of the batch
\* that passes validation and skips every item that does not: messages with
\* an Id are set (the last one of an Id wins) and nothing else is added; users
\* with a key and a Name are set and nothing else is added; runtimes with an
\* Id and a Length are written to their existing document, the others change
\* nothing.
C28_PerItemValidation ==
    [][/\ (Len(flushes') > Len(flushes) /\ faults' = faults) =>
            LET messages == flushes'[Len(flushes')][1]
                users == flushes'[Len(flushes')][2]
                valid == {k \in 1 .. Len(messages) : messages[k].Id # <<>>}
                names == {n \in DOMAIN users : n # "" /\ users[n].Name # ""}
            IN /\ DOMAIN store_msgs' = DOMAIN store_msgs \cup {messages[k].Id : k \in valid}
               /\ \A id \in DOMAIN store_msgs' :
                     LET hits == {k \in valid : messages[k].Id = id}
                     IN store_msgs'[id] = IF hits = {} THEN store_msgs[id]
                                          ELSE Doc(messages[LastOf(hits)], NoneVal)
               /\ DOMAIN store_users' = DOMAIN store_users \cup names
               /\ \A n \in DOMAIN store_users' :
                     store_users'[n] = IF n \in names THEN users[n] ELSE store_users[n]
       /\ (Len(runtime_batches') > Len(runtime_batches) /\ faults' = faults) =>
            LET runtimes == runtime_batches'[Len(runtime_batches')]
            IN /\ DOMAIN store_msgs' = DOMAIN store_msgs
               /\ \A id \in DOMAIN store_msgs :
                     LET hits == {k \in 1 .. Len(runtimes) :
                                    runtimes[k].Id = id /\ runtimes[k].Length # NoneVal}
                     IN store_msgs'[id] =
                          IF hits = {} THEN store_msgs[id]
                          ELSE [store_msgs[id] EXCEPT
                                  !.Runtime = runtimes[LastOf(hits)].Length]]_vars

C28_Witness ==
    /\ faults = 0
    /\ <<>> \notin DOMAIN store_msgs /\ "" \notin DOMAIN store_users
    /\ \E f \in 1 .. Len(flushes) :
          LET messages == flushes[f][1]
              users == flushes[f][2]
          IN /\ \E j, k \in 1 .. Len(messages) :
                   /\ messages[j].Id = <<>>
                   /\ messages[k].Id \in DOMAIN store_msgs
                   /\ store_msgs[messages[k].Id].Attachment_URL =
                         messages[k].Attachment_URL
             /\ \E n, o \in DOMAIN users :
                   /\ users[n].Name = ""
                   /\ o \in DOMAIN store_users /\ store_users[o] = users[o]
    /\ \E b \in 1 .. Len(runtime_batches) :
          \E j, k \in 1 .. Len(runtime_batches[b]) :
              /\ runtime_batches[b][j].Length = NoneVal
              /\ runtime_batches[b][k].Id \in DOMAIN store_msgs
              /\ store_msgs[runtime_batches[b][k].Id].Runtime =
                    runtime_batches[b][k].Length
              /\ runtime_batches[b][k].Length = 0

\* C34: an iteration of start_live_message_handling never holds more than
\* batch_size messages in the buffer after its dequeue, and leaves fewer than
\* batch_size messages in it.
C34_BufferBound ==
    [][MHIteration =>
         LET buf == IF Len(flushes') > Len(flushes)
                    THEN flushes'[Len(flushes')][1] ELSE pending_messages'
         IN /\ Len(pending_messages) < batch_size
            /\ Len(buf) <= batch_size
            /\ Len(pending_messages') < batch_size]_vars

C34_Witness ==
    /\ Len(pending_messages) = batch_size - 1
    /\ \E f \in 1 .. Len(flushes) : Len(flushes[f][1]) = batch_size

\* C35: of two tasks for the same resource, none reads the temp file (probes
\* or extracts) while the other is writing it.
C35_NoTempFileRace ==
    \A i, j \in 1 .. Len(tasks) :
        (i # j /\ tasks[i].video.Id = tasks[j].video.Id)
        => ~(tasks[i].pc = "writing" /\ tasks[j].pc \in {"probe", "thumb"})

BatchEntriesOf(id) ==
    {bk \in UNION {{<<b, k>> : k \in 1 .. Len(runtime_batches[b])} :
                     b \in 1 .. Len(runtime_batches)} :
        runtime_batches[bk[1]][bk[2]].Id = id}

\* C36: every resource id occurs at most once in all the batches given to
\* upload_runtime, and an id whose duration was loaded at startup occurs in none.
C36_OneFlushPerId ==
    \A m \in 1 .. NMetaIds :
        /\ Cardinality(BatchEntriesOf(Uuid(m))) <= 1
        /\ Uuid(m) \in DOMAIN vl_startup => BatchEntriesOf(Uuid(m)) = {}

C36_Witness ==
    /\ Uuid(1) \in DOMAIN vl_startup
    /\ \E k \in 1 .. Len(Submitted(Uuid(1))) : Truthy(Submitted(Uuid(1))[k])
    /\ Len(Submitted(Uuid(2))) = 2
    /\ \A k \in 1 .. 2 : Truthy(Submitted(Uuid(2))[k])
    /\ Cardinality(BatchEntriesOf(Uuid(2))) = 1
    /\ metadata_queue = <<>>

SchedEntries == UNION {SeedEntries(store) : store \in SchedStores}

\* C32: every entry that is in the heap when its expiry has passed is
\* eventually handed to run_coroutine_threadsafe, as long as the loop of
\* start() keeps iterating and the input queue stays empty.
C32_SchedulerLiveness ==
    \A e \in SchedEntries :
        (e \in refetch_heap /\ IsDue(e, now))
        ~> (\E k \in 1 .. Len(dispatched) : dispatched[k] = e)

C32_Witness ==
    /\ refetch_heap = {}
    /\ \E k \in 1 .. Len(dispatched) : dispatched[k][1] > StartTime
    /\ \E k \in 1 .. Len(dispatched) : dispatched[k][1] < StartTime

\* C37: every duration entry accepted by batch_save_metadata is eventually in
\* a batch given to upload_runtime, whether further entries arrive or not, as
\* long as the coroutine keeps iterating.
C37_MetadataLiveness ==
    \A m \in 1 .. NMetaIds :
        (Uuid(m) \in DOMAIN video_lengths \ DOMAIN vl_startup)
        ~> (BatchEntriesOf(Uuid(m)) # {})

C37_Witness ==
    /\ Len(runtime_batches) >= 2
    /\ Len(runtime_batches[1]) < MetaBatchSize
    /\ new_metadata = <<>> /\ metadata_queue = <<>>

\* C38: the n-th pair put on the input queue is eventually dequeued and its
\* message handed to a batched upsert, further messages arriving or not; an
\* iteration that finds the buffer non-empty flush_interval after the last
\* flush flushes it.
C38_IngestionLiveness ==
    /\ \A n \in 1 .. MaxLive :
          (Len(put_after_full) >= n) ~> (Len(FlushedMessages) >= n)
    /\ [][MHIteration =>
            /\ message_queue # <<>> => message_queue' = Tail(message_queue)
            /\ (/\ pending_messages # <<>> \/ message_queue # <<>>
                /\ now - last_flush_time >= flush_interval)
               => /\ Len(flushes') = Len(flushes) + 1
                  /\ pending_messages' = <<>>]_vars

C38_Witness ==
    /\ Len(put_after_full) = 1
    /\ Len(flushes) = 1 /\ Len(flushes[1][1]) = 1
    /\ 1 < batch_size

\* C31: once the supervisor has cleared the running flag, the ingestion loop
\* and the scheduler loop both come to an end.
C31_FlagResponsiveness ==
    (~running) ~> (mh_thread = "exited" /\ rh_thread = "exited")

Counts(i) == Cardinality({k \in 1 .. Len(counted) : counted[k] = i})

\* C33: the sum of the three counters is the number of completed tasks that
\* have been handled and never exceeds the number of descriptors drawn; no
\* completed task is counted twice.
C33_ResultAggregation ==
    /\ stats.generated + stats.skipped + stats.errors <= Len(tasks)
    /\ \A i \in 1 .. Len(tasks) : Counts(i) <= 1

\* C39: every descriptor put on the thumbnail queue eventually has a task that
\* has held the semaphore, has completed and has been counted; a handler that
\* resumes draws every descriptor that arrived while it waited, and only the
\* handler draws.
C39_MediaLiveness ==
    /\ \A n \in 1 .. MaxLive :
          (Len(put_after_full) >= n)
              ~> (/\ Len(tasks) >= n
                  /\ tasks[n].pc = "done"
                  /\ Counts(n) >= 1)
    /\ [][/\ LoopHandler =>
                /\ thumbnail_queue' = <<>>
                /\ Len(tasks') = Len(tasks) + Len(thumbnail_queue)
          /\ (Len(tasks') # Len(tasks)) => LoopHandler]_vars

C39_Witness ==
    /\ Len(tasks) = MaxLive
    /\ \A n \in 1 .. MaxLive : tasks[n].pc = "done" /\ Counts(n) >= 1
    /\ \E n \in 1 .. MaxLive : tasks[n].status = "generated"
    /\ \E n \in 1 .. MaxLive : tasks[n].status = "skipped"
    /\ stats.generated + stats.skipped + stats.errors >= MaxLive

====
